---- MODULE Spec2Model ----
(***************************************************************************)
(* State-machine model of MeasurementSystem (src/src/MeasurementSystem.ts) *)
(* as driven by its host (src/unnamed/part_000).                           *)
(*                                                                         *)
(* Coordinates and distances are fixed-point numbers counted in            *)
(* centimetres (1 m = 100 units), every arithmetic result rounded to the   *)
(* nearest unit, so 0.5 m is 50 and 0.1 m is 10.                           *)
(*                                                                         *)
(* Every method of the class is an operator from a system record (the      *)
(* fields of the object, the children of the scene and the bag of          *)
(* dispose() calls received by each GPU resource) to the system record     *)
(* after the call; an action applies one public method to the current      *)
(* state.  The variables lastCall and before are history variables: the    *)
(* name of the last method called and the system record it was called on.  *)
(*                                                                         *)
(* SnapSpec is a second specification, for snapToIncrement alone: it draws *)
(* the arguments of one call from a grid and applies the function to them  *)
(* and then to its own result; the variable snapped holds the arguments    *)
(* and the results, and is unset under Spec.                               *)
(***************************************************************************)
EXTENDS Integers, Sequences, FiniteSets, Bags, TLC

VARIABLES isActive, startPoint, previewLine, currentMousePos, measurements,
          scene, released, nextId, lastCall, before, snapped

vars == <<isActive, startPoint, previewLine, currentMousePos, measurements,
          scene, released, nextId, lastCall, before, snapped>>

(* ---------------------------- bounds ---------------------------------- *)

\* Objects (preview lines and dimension groups) the system may create.
MaxObjects == 4

\* SnapSpec: end points have coordinates i * SnapStride, -MaxGrid <= i <= MaxGrid.
MaxGrid == 4

SnapStride == 17

\* SnapSpec: increments 1 .. MaxIncrement are tried besides the two of the program.
MaxIncrement == 3

(* --------------------------- constants -------------------------------- *)

SNAP_SHIFT == 50

SNAP_CTRL == 10

\* null: an unset startPoint / previewLine, an absent texture map.
NULL == <<>>

\* World-space points the host delivers (the ray-cast p of part_000).
Points == { <<0, 0, 0>>, <<3, 4, 0>>, <<123, 0, 0>> }

\* Values of MouseEvent.shiftKey / ctrlKey.
Flags == BOOLEAN

\* Arguments of removeMeasurement.
Indices == -1 .. MaxObjects

(* ------------------- materials owned by the system -------------------- *)

dimensionMat == <<0, "dimensionMat">>

extensionMat == <<0, "extensionMat">>

previewMat == <<0, "previewMat">>

arrowheadMat == <<0, "arrowheadMat">>

textMat == <<0, "textMat">>

(* --------------------------- geometry --------------------------------- *)

RECURSIVE FloorSqrt(_, _, _)
\* The largest r in lo..hi with r * r <= n (binary search).
FloorSqrt(n, lo, hi) ==
    IF lo >= hi THEN lo
    ELSE LET mid == (lo + hi + 1) \div 2
         IN  IF mid * mid <= n THEN FloorSqrt(n, mid, hi)
             ELSE FloorSqrt(n, lo, mid - 1)

RECURSIVE Above(_, _)
\* The first of h, 2h, 4h, ... whose square exceeds n.
Above(n, h) == IF h * h > n THEN h ELSE Above(n, 2 * h)

\* Math.sqrt, rounded to the nearest unit.
Sqrt(n) ==
    LET r == FloorSqrt(n, 0, Above(n, 1))
    IN  IF n - r * r > r THEN r + 1 ELSE r

\* Math.round(num / den) for num >= 0, den > 0: halves round up.
Round(num, den) == (2 * num + den) \div (2 * den)

\* num / den rounded to the nearest unit, for either sign of num.
RoundDiv(num, den) ==
    IF num >= 0 THEN Round(num, den) ELSE -Round(-num, den)

\* Vector3.distanceTo
distanceTo(a, b) ==
    Sqrt((b[1] - a[1]) * (b[1] - a[1]) + (b[2] - a[2]) * (b[2] - a[2])
         + (b[3] - a[3]) * (b[3] - a[3]))

\* snapToIncrement with Math.floor in place of Math.round.
snapToIncrement_floor(start, end, increment) ==
    LET distance == distanceTo(start, end)
        snappedDistance == (distance \div increment) * increment
    IN  IF snappedDistance = 0 THEN end
        ELSE [i \in 1..3 |->
                start[i] + RoundDiv((end[i] - start[i]) * snappedDistance, distance)]

\* snapToIncrement without the snappedDistance === 0 guard (normalize()
\* divides by length || 1).
snapToIncrement_noGuard(start, end, increment) ==
    LET distance == distanceTo(start, end)
        snappedDistance == Round(distance, increment) * increment
        length == IF distance = 0 THEN 1 ELSE distance
    IN  [i \in 1..3 |->
            start[i] + RoundDiv((end[i] - start[i]) * snappedDistance, length)]

\* snapToIncrement: the point on the ray start -> end whose distance from
\* start is the multiple of increment nearest to |end - start|; end itself
\* when that multiple is zero.
snapToIncrement(start, end, increment) ==
    LET distance == distanceTo(start, end)
        snappedDistance == Round(distance, increment) * increment
    IN  IF snappedDistance = 0 THEN end
        ELSE [i \in 1..3 |->
                start[i] + RoundDiv((end[i] - start[i]) * snappedDistance, distance)]

(* ----------------------------- objects -------------------------------- *)

\* new THREE.Line(geo, previewMat) of the first click.
PreviewLine(id, a, b) ==
    [id |-> id, type |-> "Line", geometry |-> <<id, "previewGeo">>,
     material |-> previewMat, map |-> NULL, points |-> <<a, b>>,
     children |-> <<>>]

\* A child primitive of a dimension group.
Child(type, geometry, material, map) ==
    [type |-> type, geometry |-> geometry, material |-> material, map |-> map,
     children |-> <<>>]

\* createDimensionLineGroup storing a as the endPoint of userData.
createDimensionLineGroup_endIsStart(id, a, b) ==
    [id |-> id, type |-> "Group", geometry |-> NULL, material |-> NULL,
     map |-> NULL,
     userData |-> [startPoint |-> a, endPoint |-> a, distance |-> distanceTo(a, b)],
     children |->
       << Child("Line", <<id, "dimGeo">>, dimensionMat, NULL),
          Child("Line", <<id, "extGeo1">>, extensionMat, NULL),
          Child("Line", <<id, "extGeo2">>, extensionMat, NULL),
          Child("Mesh", <<id, "arrowGeo1">>, arrowheadMat, NULL),
          Child("Mesh", <<id, "arrowGeo2">>, arrowheadMat, NULL),
          Child("Sprite", <<id, "spriteGeo">>, <<id, "spriteMat">>, <<id, "texture">>) >>]

\* createDimensionLineGroup: the group of one completed measurement, its
\* userData and its six children (main line, two extension lines, two
\* arrowheads, text sprite).
\* The lines and arrowheads are built on the materials of the system; the
\* sprite has a material and a texture of its own (createTextSprite), and
\* its geometry is counted as its own.
createDimensionLineGroup(id, a, b) ==
    [id |-> id, type |-> "Group", geometry |-> NULL, material |-> NULL,
     map |-> NULL,
     userData |-> [startPoint |-> a, endPoint |-> b, distance |-> distanceTo(a, b)],
     children |->
       << Child("Line", <<id, "dimGeo">>, dimensionMat, NULL),
          Child("Line", <<id, "extGeo1">>, extensionMat, NULL),
          Child("Line", <<id, "extGeo2">>, extensionMat, NULL),
          Child("Mesh", <<id, "arrowGeo1">>, arrowheadMat, NULL),
          Child("Mesh", <<id, "arrowGeo2">>, arrowheadMat, NULL),
          Child("Sprite", <<id, "spriteGeo">>, <<id, "spriteMat">>, <<id, "texture">>) >>]

\* Object3D.traverse: the object itself, then its children.
Traverse(obj) == <<obj>> \o obj.children

\* The resources disposeGroup's callback disposes for one visited object,
\* in the order of the dispose() calls.
DisposedOf(child) ==
    IF child.type \in {"Mesh", "Line"} THEN <<child.geometry, child.material>>
    ELSE IF child.type = "Sprite" THEN <<child.geometry, child.map, child.material>>
    ELSE <<>>

\* Every resource an object or one of its children refers to.
ResourcesOf(obj) ==
    UNION { {c.geometry, c.material, c.map} \ {NULL} :
            c \in { Traverse(obj)[i] : i \in 1..Len(Traverse(obj)) } }

RECURSIVE DisposeEach(_, _)
\* One dispose() call on each resource of a sequence.
DisposeEach(rel, rs) ==
    IF rs = <<>> THEN rel
    ELSE DisposeEach(rel (+) SetToBag({Head(rs)}), Tail(rs))

RECURSIVE DisposeTraversal(_, _)
DisposeTraversal(rel, objs) ==
    IF objs = <<>> THEN rel
    ELSE DisposeTraversal(DisposeEach(rel, DisposedOf(Head(objs))), Tail(objs))

(* ------------------------- the system record -------------------------- *)

Sys ==
    [isActive |-> isActive, startPoint |-> startPoint, previewLine |-> previewLine,
     currentMousePos |-> currentMousePos, measurements |-> measurements,
     scene |-> scene, released |-> released, nextId |-> nextId]

(* ----------------------------- methods -------------------------------- *)

disposeGroup(s, group) ==
    [s EXCEPT !.released = DisposeTraversal(s.released, Traverse(group))]

\* cancelMeasurement without its last statement (startPoint is kept).
cancelMeasurement_keepsStart(s) ==
    IF s.previewLine # NULL
    THEN [disposeGroup([s EXCEPT !.scene = @ \ {s.previewLine.id}], s.previewLine)
            EXCEPT !.previewLine = NULL]
    ELSE s

\* cancelMeasurement without the reset of previewLine.
cancelMeasurement_keepsPreviewRef(s) ==
    LET t == IF s.previewLine # NULL
             THEN disposeGroup([s EXCEPT !.scene = @ \ {s.previewLine.id}],
                               s.previewLine)
             ELSE s
    IN  [t EXCEPT !.startPoint = NULL]

\* cancelMeasurement disposing the preview material outside the null check.
cancelMeasurement_alwaysDisposes(s) ==
    LET t == IF s.previewLine # NULL
             THEN [s EXCEPT !.scene = @ \ {s.previewLine.id},
                            !.released = DisposeEach(@, <<s.previewLine.geometry>>),
                            !.previewLine = NULL]
             ELSE s
    IN  [t EXCEPT !.startPoint = NULL,
                  !.released = DisposeEach(@, <<previewMat>>)]

cancelMeasurement(s) ==
    LET t == IF s.previewLine # NULL
             THEN [disposeGroup([s EXCEPT !.scene = @ \ {s.previewLine.id}],
                                s.previewLine)
                     EXCEPT !.previewLine = NULL]
             ELSE s
    IN  [t EXCEPT !.startPoint = NULL]

\* completeMeasurement with unshift in place of push.
completeMeasurement_unshift(s, a, b) ==
    LET dimensionGroup == createDimensionLineGroup(s.nextId, a, b)
    IN  [s EXCEPT !.nextId = @ + 1,
                  !.scene = @ \cup {dimensionGroup.id},
                  !.measurements = <<dimensionGroup>> \o @]

\* completeMeasurement without the push onto measurements.
completeMeasurement_noPush(s, a, b) ==
    LET dimensionGroup == createDimensionLineGroup(s.nextId, a, b)
    IN  [s EXCEPT !.nextId = @ + 1,
                  !.scene = @ \cup {dimensionGroup.id}]

completeMeasurement(s, a, b) ==
    LET dimensionGroup == createDimensionLineGroup(s.nextId, a, b)
    IN  [s EXCEPT !.nextId = @ + 1,
                  !.scene = @ \cup {dimensionGroup.id},
                  !.measurements = Append(@, dimensionGroup)]

activate(s) == [s EXCEPT !.isActive = TRUE]

\* deactivate without the call of cancelMeasurement.
deactivate_noCancel(s) == [s EXCEPT !.isActive = FALSE]

deactivate(s) == cancelMeasurement([s EXCEPT !.isActive = FALSE])

\* handleMouseMove rebuilding the preview from p alone.
handleMouseMove_movesStart(s, p) ==
    IF ~s.isActive THEN s
    ELSE LET t == [s EXCEPT !.currentMousePos = p]
         IN  IF t.previewLine = NULL \/ t.startPoint = NULL THEN t
             ELSE [t EXCEPT !.previewLine.points = <<p, p>>]

\* handleMouseMove copying p into startPoint instead of currentMousePos.
handleMouseMove_tracksStart(s, p) ==
    IF ~s.isActive THEN s
    ELSE LET t == [s EXCEPT !.startPoint = p]
         IN  IF t.previewLine = NULL \/ t.startPoint = NULL THEN t
             ELSE [t EXCEPT !.previewLine.points = <<t.startPoint, p>>]

handleMouseMove(s, p) ==
    IF ~s.isActive THEN s
    ELSE LET t == [s EXCEPT !.currentMousePos = p]
         IN  IF t.previewLine = NULL \/ t.startPoint = NULL THEN t
             ELSE [t EXCEPT !.previewLine.points = <<t.startPoint, p>>]

\* handleClick testing ctrlKey before shiftKey.
handleClick_ctrlFirst(s, p, shiftKey, ctrlKey) ==
    IF ~s.isActive THEN s
    ELSE IF s.startPoint = NULL
    THEN [s EXCEPT !.startPoint = p,
                   !.previewLine = PreviewLine(s.nextId, p, p),
                   !.nextId = @ + 1,
                   !.scene = @ \cup {s.nextId}]
    ELSE LET endPoint ==
                 IF ctrlKey THEN snapToIncrement(s.startPoint, p, SNAP_CTRL)
                 ELSE IF shiftKey THEN snapToIncrement(s.startPoint, p, SNAP_SHIFT)
                 ELSE p
         IN  cancelMeasurement(completeMeasurement(s, s.startPoint, endPoint))

\* handleClick without the isActive check.
handleClick_noActiveCheck(s, p, shiftKey, ctrlKey) ==
    IF s.startPoint = NULL
    THEN [s EXCEPT !.startPoint = p,
                   !.previewLine = PreviewLine(s.nextId, p, p),
                   !.nextId = @ + 1,
                   !.scene = @ \cup {s.nextId}]
    ELSE LET endPoint ==
                 IF shiftKey THEN snapToIncrement(s.startPoint, p, SNAP_SHIFT)
                 ELSE IF ctrlKey THEN snapToIncrement(s.startPoint, p, SNAP_CTRL)
                 ELSE p
         IN  cancelMeasurement(completeMeasurement(s, s.startPoint, endPoint))

handleClick(s, p, shiftKey, ctrlKey) ==
    IF ~s.isActive THEN s
    ELSE IF s.startPoint = NULL
    THEN [s EXCEPT !.startPoint = p,
                   !.previewLine = PreviewLine(s.nextId, p, p),
                   !.nextId = @ + 1,
                   !.scene = @ \cup {s.nextId}]
    ELSE LET endPoint ==
                 IF shiftKey THEN snapToIncrement(s.startPoint, p, SNAP_SHIFT)
                 ELSE IF ctrlKey THEN snapToIncrement(s.startPoint, p, SNAP_CTRL)
                 ELSE p
         IN  cancelMeasurement(completeMeasurement(s, s.startPoint, endPoint))

\* Array.prototype.splice(index, 1) for 0 <= index < length.
Splice(seq, index) ==
    SubSeq(seq, 1, index) \o SubSeq(seq, index + 2, Len(seq))

\* removeMeasurement disposing the entry at index but splicing out the first.
removeMeasurement_splicesFirst(s, index) ==
    IF index >= 0 /\ index < Len(s.measurements)
    THEN LET measurement == s.measurements[index + 1]
             t == disposeGroup([s EXCEPT !.scene = @ \ {measurement.id}], measurement)
         IN  [t EXCEPT !.measurements = Splice(@, 0)]
    ELSE s

\* removeMeasurement clamping the index into range instead of rejecting it.
removeMeasurement_clamped(s, index) ==
    IF s.measurements # <<>>
    THEN LET last == Len(s.measurements) - 1
             i == IF index < 0 THEN 0 ELSE IF index > last THEN last ELSE index
             measurement == s.measurements[i + 1]
             t == disposeGroup([s EXCEPT !.scene = @ \ {measurement.id}], measurement)
         IN  [t EXCEPT !.measurements = Splice(@, i)]
    ELSE s

removeMeasurement(s, index) ==
    IF index >= 0 /\ index < Len(s.measurements)
    THEN LET measurement == s.measurements[index + 1]
             t == disposeGroup([s EXCEPT !.scene = @ \ {measurement.id}], measurement)
         IN  [t EXCEPT !.measurements = Splice(@, index)]
    ELSE s

RECURSIVE ForEachDispose(_, _)
\* The forEach callback of clearAllMeasurements over the measurements.
ForEachDispose(s, ms) ==
    IF ms = <<>> THEN s
    ELSE ForEachDispose(
             disposeGroup([s EXCEPT !.scene = @ \ {Head(ms).id}], Head(ms)),
             Tail(ms))

\* clearAllMeasurements without the reset of the measurements array.
clearAllMeasurements_noReset(s) == ForEachDispose(s, s.measurements)

clearAllMeasurements(s) ==
    [ForEachDispose(s, s.measurements) EXCEPT !.measurements = <<>>]

dispose(s) ==
    LET t == cancelMeasurement(clearAllMeasurements(s))
    IN  [t EXCEPT !.released =
            DisposeEach(@, <<dimensionMat, extensionMat, previewMat, arrowheadMat>>)]

(* ----------------------------- actions -------------------------------- *)

\* A call of the method named `call` took the system to the record t.
Apply(t, call) ==
    /\ isActive' = t.isActive
    /\ startPoint' = t.startPoint
    /\ previewLine' = t.previewLine
    /\ currentMousePos' = t.currentMousePos
    /\ measurements' = t.measurements
    /\ scene' = t.scene
    /\ released' = t.released
    /\ nextId' = t.nextId
    /\ lastCall' = call
    /\ before' = Sys
    /\ snapped' = snapped

\* State after `new MeasurementSystem()` and init({scene, camera}); the
\* scene is tracked as the ids of the objects the system has added to it.
Constructed ==
    /\ isActive = FALSE
    /\ startPoint = NULL
    /\ previewLine = NULL
    /\ currentMousePos = <<0, 0, 0>>
    /\ measurements = <<>>
    /\ scene = {}
    /\ released = EmptyBag
    /\ nextId = 1
    /\ lastCall = "init"
    /\ before = Sys

Init ==
    /\ Constructed
    /\ snapped = NULL

\* dispose() is the teardown of the system: the host makes no call after it.
Running == lastCall # "dispose"

Activate ==
    /\ Running
    /\ Apply(activate(Sys), "activate")

Deactivate ==
    /\ Running
    /\ Apply(deactivate(Sys), "deactivate")

HandleMouseMove ==
    /\ Running
    /\ \E p \in Points :
           Apply(handleMouseMove(Sys, p), "handleMouseMove")

\* A click is modelled while it allocates no object beyond MaxObjects.
HandleClick ==
    /\ Running
    /\ \E p \in Points, shiftKey \in Flags, ctrlKey \in Flags :
           /\ handleClick(Sys, p, shiftKey, ctrlKey).nextId <= MaxObjects + 1
           /\ Apply(handleClick(Sys, p, shiftKey, ctrlKey), "handleClick")

\* The host's keydown handler on Escape.
CancelMeasurement ==
    /\ Running
    /\ Apply(cancelMeasurement(Sys), "cancelMeasurement")

RemoveMeasurement ==
    /\ Running
    /\ \E index \in Indices :
           Apply(removeMeasurement(Sys, index), "removeMeasurement")

ClearAllMeasurements ==
    /\ Running
    /\ Apply(clearAllMeasurements(Sys), "clearAllMeasurements")

Dispose ==
    /\ Running
    /\ Apply(dispose(Sys), "dispose")

Next ==
    \/ Activate
    \/ Deactivate
    \/ HandleMouseMove
    \/ HandleClick
    \/ CancelMeasurement
    \/ RemoveMeasurement
    \/ ClearAllMeasurements
    \/ Dispose

Spec == Init /\ [][Next]_vars

(* ------------------- snapToIncrement on its own ----------------------- *)

\* Start points, end points and increments of the calls of SnapSpec.
SnapStarts == Points

GridCoords == { i * SnapStride : i \in -MaxGrid .. MaxGrid }

SnapEnds == (GridCoords \X GridCoords \X GridCoords) \cup Points

Increments == (1 .. MaxIncrement) \cup {SNAP_CTRL, SNAP_SHIFT}

SnapInit ==
    /\ Constructed
    /\ snapped \in [start : SnapStarts, end : SnapEnds, increment : Increments,
                    results : {<<>>}]

\* snapToIncrement(start, end, increment)
SnapOnce ==
    /\ snapped.results = <<>>
    /\ snapped' = [snapped EXCEPT !.results =
                      <<snapToIncrement(snapped.start, snapped.end, snapped.increment)>>]
    /\ UNCHANGED <<isActive, startPoint, previewLine, currentMousePos, measurements,
                   scene, released, nextId, lastCall, before>>

\* snapToIncrement(start, r, increment) on the result r of the first call
SnapAgain ==
    /\ Len(snapped.results) = 1
    /\ snapped' = [snapped EXCEPT !.results =
                      Append(@, snapToIncrement(snapped.start, snapped.results[1],
                                                snapped.increment))]
    /\ UNCHANGED <<isActive, startPoint, previewLine, currentMousePos, measurements,
                   scene, released, nextId, lastCall, before>>

SnapNext == SnapOnce \/ SnapAgain

SnapSpec == SnapInit /\ [][SnapNext]_vars

(* ------------------------ derived vocabulary -------------------------- *)

\* Number of dispose() calls the resource r has received.
Releases(r) == CopiesIn(r, released)

\* The objects that are alive: the registered measurements and the preview.
LiveObjects ==
    { measurements[i] : i \in 1..Len(measurements) }
        \cup (IF previewLine = NULL THEN {} ELSE {previewLine})

\* The record t is the state just after a first click on p made in state s.
FirstClick(s, t, p) ==
    /\ t.startPoint = p
    /\ t.previewLine # NULL
    /\ t.previewLine.points = <<p, p>>
    /\ t.previewLine.id \in t.scene
    /\ t.measurements = s.measurements

(* ------------------------------ claims -------------------------------- *)

\* C1: on an active system a handleClick made in Idle registers no
\* measurement and leaves the machine Pending (startPoint and preview set);
\* a handleClick made in Pending registers exactly one more measurement,
\* keeps the earlier ones, and leaves the machine Idle with the preview out
\* of the scene.
C1_ClickStateMachine ==
    (lastCall = "handleClick" /\ before.isActive) =>
        IF before.startPoint = NULL
        THEN /\ measurements = before.measurements
             /\ startPoint # NULL
             /\ previewLine # NULL
             /\ previewLine.id \in scene
        ELSE /\ Len(measurements) = Len(before.measurements) + 1
             /\ SubSeq(measurements, 1, Len(before.measurements)) = before.measurements
             /\ startPoint = NULL
             /\ previewLine = NULL
             /\ before.previewLine.id \notin scene

C1_Witness ==
    /\ lastCall = "handleClick"
    /\ before.isActive
    /\ before.startPoint # NULL
    /\ Len(measurements) = Len(before.measurements) + 1
    /\ measurements[Len(measurements)].userData.endPoint \notin Points

\* C2: no resource (geometry, material, texture) ever receives a second
\* dispose() call.
C2_ReleasedAtMostOnce ==
    \A r \in BagToSet(released) : Releases(r) <= 1

\* C3: no registered measurement and no live preview refers to a resource
\* that has already been disposed.
C3_NoLiveUseOfReleased ==
    \A obj \in LiveObjects : \A r \in ResourcesOf(obj) : Releases(r) = 0

\* C4: every registered measurement has startPoint # endPoint, i.e.
\* createDimensionLineGroup was never called with start = end.
C4_StartDiffersFromEnd ==
    \A i \in 1..Len(measurements) :
        measurements[i].userData.startPoint # measurements[i].userData.endPoint

\* C5: deactivate, in whatever state it is called, ends inactive and Idle
\* with the preview out of the scene and the registry as it was; and from
\* any inactive state an activate followed by a click is a first click.
C5_DeactivateCancels ==
    /\ lastCall = "deactivate" =>
          /\ ~isActive
          /\ startPoint = NULL
          /\ previewLine = NULL
          /\ before.previewLine # NULL => before.previewLine.id \notin scene
          /\ measurements = before.measurements
    /\ ~isActive =>
          \A p \in Points, shiftKey \in Flags, ctrlKey \in Flags :
              FirstClick(Sys, handleClick(activate(Sys), p, shiftKey, ctrlKey), p)

C5_Witness ==
    /\ lastCall = "deactivate"
    /\ before.isActive
    /\ before.startPoint # NULL
    /\ before.previewLine.id \in before.scene
    /\ measurements # <<>>

\* C6: while isActive is false a handleClick or a handleMouseMove changes
\* no part of the state, whatever its arguments.
C6_InactiveIgnoresInput ==
    /\ (lastCall \in {"handleClick", "handleMouseMove"} /\ ~before.isActive) =>
          Sys = before
    /\ ~isActive =>
          /\ \A p \in Points : handleMouseMove(Sys, p) = Sys
          /\ \A p \in Points, shiftKey \in Flags, ctrlKey \in Flags :
                 handleClick(Sys, p, shiftKey, ctrlKey) = Sys

C6_Witness ==
    /\ lastCall = "handleClick"
    /\ ~before.isActive
    /\ measurements # <<>>

\* C7 as stated: a handleMouseMove on an active system in Idle changes no
\* field of the state.
C7_IdleMoveChangesNothing ==
    (lastCall = "handleMouseMove" /\ before.isActive /\ before.startPoint = NULL) =>
        Sys = before

\* C7 as amended: a handleMouseMove(p) on an active system in Idle sets
\* currentMousePos to p and changes no other field of the state.
C7_IdleMoveOnlyTracksMouse ==
    /\ (lastCall = "handleMouseMove" /\ before.isActive /\ before.startPoint = NULL) =>
          Sys = [before EXCEPT !.currentMousePos = currentMousePos]
    /\ (isActive /\ startPoint = NULL) =>
          \A p \in Points :
              handleMouseMove(Sys, p) = [Sys EXCEPT !.currentMousePos = p]

C7_Witness ==
    /\ lastCall = "handleMouseMove"
    /\ before.isActive
    /\ before.startPoint = NULL
    /\ before.measurements # <<>>
    /\ currentMousePos # before.currentMousePos

\* C8: cancelMeasurement in Pending leaves the machine Idle, the preview
\* out of the scene with its geometry and material disposed, the registry
\* and isActive as they were; the next click is a first click.
C8_CancelIsTotal ==
    (lastCall = "cancelMeasurement" /\ before.startPoint # NULL) =>
        /\ startPoint = NULL
        /\ previewLine = NULL
        /\ before.previewLine # NULL
        /\ before.previewLine.id \notin scene
        /\ Releases(before.previewLine.geometry) = 1
        /\ Releases(before.previewLine.material)
             = CopiesIn(before.previewLine.material, before.released) + 1
        /\ measurements = before.measurements
        /\ isActive = before.isActive
        /\ isActive =>
              \A p \in Points, shiftKey \in Flags, ctrlKey \in Flags :
                  FirstClick(Sys, handleClick(Sys, p, shiftKey, ctrlKey), p)

C8_Witness ==
    /\ lastCall = "cancelMeasurement"
    /\ before.startPoint # NULL
    /\ before.previewLine.points[2] # before.startPoint
    /\ isActive
    /\ measurements = <<>>

\* C9: cancelMeasurement in Idle changes no part of the state (nothing
\* leaves the scene, nothing is disposed), and so does a second call.
C9_CancelInIdleIsNoOp ==
    /\ (lastCall = "cancelMeasurement" /\ before.startPoint = NULL) => Sys = before
    /\ startPoint = NULL =>
          /\ cancelMeasurement(Sys) = Sys
          /\ cancelMeasurement(cancelMeasurement(Sys)) = Sys

C9_Witness ==
    /\ lastCall = "cancelMeasurement"
    /\ before.startPoint = NULL
    /\ isActive
    /\ measurements # <<>>
    /\ released # EmptyBag

\* C10: removeMeasurement(index) with index < 0 or index >= length changes
\* no part of the state (registry, scene, disposed resources).
C10_RemoveOutOfRangeIsNoOp ==
    /\ \A index \in Indices :
          (index < 0 \/ index >= Len(measurements)) =>
              removeMeasurement(Sys, index) = Sys
    /\ (lastCall = "removeMeasurement"
          /\ Len(measurements) = Len(before.measurements)) => Sys = before

C10_Witness ==
    /\ lastCall = "removeMeasurement"
    /\ Sys = before
    /\ measurements # <<>>

\* The elements of a sequence.
Range(seq) == { seq[i] : i \in 1..Len(seq) }

\* The last element of a non-empty sequence.
Last(seq) == seq[Len(seq)]

\* The group has left the scene of t and each of its resources has received
\* a dispose() call; the geometries, sprite material and texture of the
\* group, which no other object uses, have received exactly one.
DetachedAndReleased(t, group) ==
    /\ group.id \notin t.scene
    /\ \A r \in ResourcesOf(group) :
          /\ CopiesIn(r, t.released) >= 1
          /\ r[1] = group.id => CopiesIn(r, t.released) = 1

C12_ClearAll ==
    /\ lastCall = "clearAllMeasurements" =>
          /\ measurements = <<>>
          /\ \A m \in Range(before.measurements) : DetachedAndReleased(Sys, m)
          /\ clearAllMeasurements(Sys) = Sys
    /\ LET t == clearAllMeasurements(Sys)
       IN  /\ t.measurements = <<>>
           /\ \A m \in Range(measurements) : DetachedAndReleased(t, m)
           /\ clearAllMeasurements(t) = t

C12_Witness ==
    /\ lastCall = "clearAllMeasurements"
    /\ Len(before.measurements) = 2
    /\ measurements = <<>>

\* C13: after dispose() the registry is empty, no measurement or preview is
\* left in the scene, and each material the system owns (dimension,
\* extension, preview, arrowhead and text material) has been disposed.
C13_DisposeReleasesAllMaterials ==
    lastCall = "dispose" =>
        /\ measurements = <<>>
        /\ previewLine = NULL
        /\ scene = {}
        /\ \A m \in {dimensionMat, extensionMat, previewMat, arrowheadMat, textMat} :
              Releases(m) >= 1

\* C14: the endpoint registered by a completing click on p is
\* snapToIncrement(startPoint, p, SNAP_SHIFT) when the coarse flag is set
\* (also with the fine flag), snapToIncrement(startPoint, p, SNAP_CTRL) when
\* only the fine flag is set, and p when neither is; starting at the origin,
\* a click 1.23 m along x gives 1.00 m, 1.00 m, 1.20 m and 1.23 m.
C14_SnapSelection ==
    /\ (isActive /\ startPoint # NULL) =>
          \A p \in Points :
              LET end(shiftKey, ctrlKey) ==
                      Last(handleClick(Sys, p, shiftKey, ctrlKey).measurements)
                          .userData.endPoint
              IN  /\ end(TRUE, TRUE) = snapToIncrement(startPoint, p, SNAP_SHIFT)
                  /\ end(TRUE, FALSE) = snapToIncrement(startPoint, p, SNAP_SHIFT)
                  /\ end(FALSE, TRUE) = snapToIncrement(startPoint, p, SNAP_CTRL)
                  /\ end(FALSE, FALSE) = p
    /\ (isActive /\ startPoint = <<0, 0, 0>>) =>
          LET end(shiftKey, ctrlKey) ==
                  Last(handleClick(Sys, <<123, 0, 0>>, shiftKey, ctrlKey).measurements)
                      .userData.endPoint
          IN  /\ end(TRUE, TRUE) = <<100, 0, 0>>
              /\ end(TRUE, FALSE) = <<100, 0, 0>>
              /\ end(FALSE, TRUE) = <<120, 0, 0>>
              /\ end(FALSE, FALSE) = <<123, 0, 0>>

C14_Witness ==
    /\ lastCall = "handleClick"
    /\ before.isActive
    /\ before.startPoint = <<0, 0, 0>>
    /\ Len(measurements) = Len(before.measurements) + 1
    /\ Last(measurements).userData.endPoint = <<120, 0, 0>>

\* |x|
Abs(x) == IF x >= 0 THEN x ELSE -x

\* The multiple of the increment nearest to |end - start| in the call of
\* SnapSpec.
SnappedDistance ==
    Round(distanceTo(snapped.start, snapped.end), snapped.increment) * snapped.increment

C17_DistanceOfStoredPoints ==
    /\ \A m \in Range(measurements) :
          /\ m.userData.distance >= 0
          /\ m.userData.distance
               = distanceTo(m.userData.startPoint, m.userData.endPoint)
          /\ (m.userData.startPoint = <<0, 0, 0>> /\ m.userData.endPoint = <<3, 4, 0>>)
                => m.userData.distance = 5
    /\ \A m \in Range(measurements) : \A b \in Range(before.measurements) :
          b.id = m.id => b.userData = m.userData

C17_Witness ==
    /\ lastCall = "removeMeasurement"
    /\ Len(before.measurements) = 2
    /\ Len(measurements) = 1
    /\ measurements[1].userData.endPoint \notin Points
    /\ measurements[1].userData.distance > 0

\* C18 as stated: a handleMouseMove on an active system in Pending changes
\* the end of the preview segment and nothing else.
C18_PendingMoveChangesOnlyPreview ==
    (lastCall = "handleMouseMove" /\ before.isActive /\ before.startPoint # NULL) =>
        Sys = [before EXCEPT !.previewLine.points = previewLine.points]

\* C18 as amended: a handleMouseMove(p) on an active system in Pending sets
\* the end of the preview segment and currentMousePos to p and changes
\* nothing else: startPoint, isActive, the registry and the scene are as
\* they were, and the preview still starts at startPoint.
C18_PendingMoveUpdatesPreview ==
    /\ (lastCall = "handleMouseMove" /\ before.isActive /\ before.startPoint # NULL) =>
          /\ Sys = [before EXCEPT !.previewLine.points = previewLine.points,
                                  !.currentMousePos = currentMousePos]
          /\ previewLine.points = <<before.startPoint, currentMousePos>>
    /\ (isActive /\ startPoint # NULL) =>
          \A p \in Points :
              handleMouseMove(Sys, p)
                  = [Sys EXCEPT !.previewLine.points = <<startPoint, p>>,
                                !.currentMousePos = p]

C18_Witness ==
    /\ lastCall = "handleMouseMove"
    /\ before.isActive
    /\ before.startPoint # NULL
    /\ previewLine.points[2] # before.previewLine.points[2]
    /\ previewLine.points[2] # startPoint

\* C19: a preview exists exactly when startPoint is set; it then starts at
\* startPoint and is the one object of the scene that is no registered
\* measurement; in Idle the scene holds no such object.
C19_AtMostOnePending ==
    /\ (previewLine # NULL) <=> (startPoint # NULL)
    /\ previewLine # NULL =>
          /\ previewLine.points[1] = startPoint
          /\ previewLine.id \notin { m.id : m \in Range(measurements) }
    /\ scene \ { m.id : m \in Range(measurements) }
          = IF startPoint # NULL THEN {previewLine.id} ELSE {}

C19_Witness ==
    /\ lastCall = "handleClick"
    /\ startPoint # NULL
    /\ previewLine.id \in scene
    /\ measurements # <<>>
    /\ released # EmptyBag

\* C20: the registry lists the surviving measurements in the order of their
\* creation, a call keeps the surviving entries in their order and appends
\* at most one new entry, as the last one; every entry is in the scene and
\* the scene holds nothing else but the preview.
C20_RegistryInCreationOrder ==
    /\ \A i, j \in 1..Len(measurements) :
          i < j => measurements[i].id < measurements[j].id
    /\ \A i \in 1..Len(measurements) :
          \/ measurements[i] \in Range(before.measurements)
          \/ /\ i = Len(measurements)
             /\ lastCall = "handleClick"
             /\ measurements[i].id = before.nextId
             /\ SubSeq(measurements, 1, i - 1) = before.measurements
    /\ { m.id : m \in Range(measurements) } \subseteq scene
    /\ scene \subseteq { m.id : m \in LiveObjects }

C20_Witness ==
    /\ lastCall = "handleClick"
    /\ Len(before.measurements) = 1
    /\ Len(measurements) = 2
    /\ measurements[1] = before.measurements[1]
    /\ measurements[2].id \in scene

====
